---- MODULE Spec2Model ----
(***************************************************************************)
(* US NCAP relative-risk simulator (sbibm/tasks/us_ncap).                  *)
(*                                                                         *)
(* Numbers.  A measurement is an integer count of hundredths of its unit.  *)
(* The injury curves (log, exp, normal cdf) are evaluated in fixed point   *)
(* with FP units per 1.0 and rounded to ProbScale steps per 1.0; from the  *)
(* probabilities on, every value is an exact fraction <<n, d>> with        *)
(* d >= 0, where d = 0 stands for the IEEE results of a division by zero:  *)
(* <<1,0>> = +inf, <<-1,0>> = -inf, <<0,0>> = nan.                         *)
(* A tensor of shape (N, K) is a sequence of N rows of K values.           *)
(***************************************************************************)
EXTENDS Integers, Sequences, FiniteSets, TLC

\* ------------------------------------------------------------ bounds
MaxBatch == 2
NumPatterns == 4
NumSeeds == 2
ProbScale == 50

\* fixed-point units per 1.0 for the transcendental functions
FP == 10 ^ 4
\* measurement units per 1.0
MScale == 10 * 10

\* ------------------------------------------------------------ integers
Abs(x) == IF x < 0 THEN -x ELSE x

Sgn(x) == IF x < 0 THEN -1 ELSE IF x > 0 THEN 1 ELSE 0

RECURSIVE GCD(_, _)
GCD(a, b) == IF b = 0 THEN a ELSE GCD(b, a % b)

\* a * b / FP for a >= 0, b >= 0, without a 32-bit overflow of a * b
FMul(a, b) == (a \div FP) * b + ((a % FP) * b) \div FP

\* round-to-nearest division of non-negative integers
RoundDiv(a, b) == (2 * a + b) \div (2 * b)

\* ------------------------------------------------------------ fractions
NaN == <<0, 0>>

Zero == <<0, 1>>

One == <<1, 1>>

Frac(n, d) ==
    IF d = 0 THEN <<Sgn(n), 0>>
    ELSE LET s == IF d < 0 THEN -1 ELSE 1
             g == GCD(Abs(n), Abs(d))
         IN  <<(s * n) \div g, (s * d) \div g>>

IsFinite(a) == a[2] # 0

RAdd(a, b) ==
    IF a[2] = 0 /\ b[2] = 0 THEN (IF a[1] = b[1] THEN a ELSE NaN)
    ELSE IF a[2] = 0 THEN a
    ELSE IF b[2] = 0 THEN b
    ELSE LET g == GCD(a[2], b[2])
             l == (a[2] \div g) * b[2]
         IN  Frac(a[1] * (l \div a[2]) + b[1] * (l \div b[2]), l)

RNeg(a) == <<-a[1], a[2]>>

RSub(a, b) == RAdd(a, RNeg(b))

RMul(a, b) ==
    IF a[2] = 0 \/ b[2] = 0 THEN <<Sgn(a[1]) * Sgn(b[1]), 0>>
    ELSE IF a[1] = 0 \/ b[1] = 0 THEN Zero
    ELSE LET g1 == GCD(Abs(a[1]), b[2])
             g2 == GCD(Abs(b[1]), a[2])
         IN  Frac((a[1] \div g1) * (b[1] \div g2), (a[2] \div g2) * (b[2] \div g1))

\* 1 / a; 1 / 0 is +inf as for an IEEE positive zero
RInv(a) ==
    IF a[1] = 0 THEN (IF a[2] = 0 THEN NaN ELSE <<1, 0>>)
    ELSE IF a[1] < 0 THEN <<-a[2], -a[1]>>
    ELSE <<a[2], a[1]>>

RDiv(a, b) == RMul(a, RInv(b))

RLess(a, b) == a[1] * b[2] < b[1] * a[2]

\* ------------------------------------------------------------ log, exp, cdf
RECURSIVE Log2Floor(_)
Log2Floor(n) == IF n < 2 THEN 0 ELSE 1 + Log2Floor(n \div 2)

\* ln(2) and e in FP units
Ln2FP == 693147 \div (1000000 \div FP)

EFP == 2718282 \div (1000000 \div FP)

\* ln(r / FP) for FP <= r < 2 FP, by 2 atanh((r - FP) / (r + FP))
LnMantissa(r) ==
    LET t  == ((r - FP) * FP) \div (r + FP)
        t2 == (t * t) \div FP
        t3 == (t * t2) \div FP
        t5 == (t3 * t2) \div FP
        t7 == (t5 * t2) \div FP
        t9 == (t7 * t2) \div FP
    IN  2 * (t + t3 \div 3 + t5 \div 5 + t7 \div 7 + t9 \div 9)

\* ln(n) in FP units for an integer n >= 1
LnNat(n) ==
    LET k == Log2Floor(n)
        r == IF k <= 13 THEN (n * FP) \div (2 ^ k)
             ELSE ((n \div (2 ^ (k - 13))) * FP) \div (2 ^ 13)
    IN  k * Ln2FP + LnMantissa(r)

\* torch.log of a positive measurement (hundredths), in FP units
Ln(x) == LnNat(x) - LnNat(MScale)

RECURSIVE ExpSeries(_, _, _, _)
ExpSeries(f, term, k, acc) ==
    IF term = 0 \/ k > 12 THEN acc
    ELSE LET nxt == (term * f) \div (FP * k)
         IN  ExpSeries(f, nxt, k + 1, acc + nxt)

RECURSIVE EPow(_)
EPow(k) == IF k = 0 THEN FP ELSE FMul(EPow(k - 1), EFP)

\* beyond exp(+-12) a logistic curve is 0 or 1 at this resolution
ExpMaxFP == 12 * FP

\* exp(y / FP) in FP units for 0 <= y < ExpMaxFP
ExpPos(y) == FMul(EPow(y \div FP), ExpSeries(y % FP, FP, 1, FP))

\* exp(y / FP) in FP units for -ExpMaxFP < y < ExpMaxFP
Exp(y) == IF y >= 0 THEN ExpPos(y) ELSE (FP * FP) \div ExpPos(-y)

\* 1 / (1 + exp(z / FP)) in FP units
Sigmoid(z) ==
    IF z >= ExpMaxFP THEN 0
    ELSE IF z <= -ExpMaxFP THEN FP
    ELSE IF z >= 0 THEN (FP * FP) \div (FP + ExpPos(z))
    ELSE FP - (FP * FP) \div (FP + ExpPos(-z))

\* 1 / sqrt(2 pi) in FP units
InvSqrt2PiFP == 398942 \div (1000000 \div FP)

RECURSIVE CdfSeries(_, _, _, _)
CdfSeries(x2, u, k, acc) ==
    IF u = 0 \/ k > 40 THEN acc
    ELSE LET s   == IF k % 2 = 0 THEN 1 ELSE -1
             nxt == FMul(u, x2) \div (2 * (k + 1))
         IN  CdfSeries(x2, nxt, k + 1, acc + s * (u \div (2 * k + 1)))

\* beyond +-4 the normal cdf is 0 or 1 at this resolution
CdfMaxFP == 4 * FP

\* torch.distributions.Normal(0, 1).cdf(x / FP) in FP units
NormalCdf(x) ==
    LET ax == Abs(x)
        up == IF ax >= CdfMaxFP THEN FP
              ELSE FP \div 2
                   + FMul(CdfSeries((ax * ax) \div FP, ax, 0, 0), InvSqrt2PiFP)
    IN  IF x >= 0 THEN up ELSE FP - up

\* a probability in FP units as a fraction on the ProbScale grid
Prob(p) == Frac(RoundDiv(p * ProbScale, FP), ProbScale)

\* a decimal literal digits / scale (scale a power of ten >= FP) in FP units
Dec(digits, scale) == digits \div (scale \div FP)

\* 1 / (1 + exp(a - b * v)) for v in FP units, a and b in millionths
Logistic(a, b, v) == Prob(Sigmoid(Dec(a, 1000000) - FMul(v, Dec(b, 1000000))))

\* 1 / (1 + exp(a - b * m)) for a measurement m in hundredths, a and b in
\* millionths (b * m is formed before it is scaled, so that a small b keeps
\* its digits)
LogisticM(a, b, m) ==
    Prob(Sigmoid(Dec(a, 1000000) - (b * m) \div ((1000000 \div FP) * MScale)))

\* m ** (c / FP) in FP units for a measurement m in hundredths
Pow(m, c) == Exp((c * Ln(m)) \div FP)

\* a measurement in hundredths as a fraction
Real(m) == Frac(m, MScale)

\* ------------------------------------------------------------ tensors
\* the sequence <<F(1), ..., F(n)>>
RECURSIVE MkSeq(_, _)
MkSeq(F(_), n) == IF n = 0 THEN <<>> ELSE Append(MkSeq(F, n - 1), F(n))

Rows(t) == Len(t)

Cols(t) == IF Len(t) = 0 THEN 0 ELSE Len(t[1])

Shape(t) == <<Rows(t), Cols(t)>>

Min(a, b) == IF a < b THEN a ELSE b

\* t[:, a:b] (0-based, b exclusive, clipped to the width as Python slices are)
Slice(t, a, b) == MkSeq(LAMBDA i : SubSeq(t[i], a + 1, Min(b, Len(t[i]))), Len(t))

\* Faulty variant: every row takes column j of the first row
Column_of_first_row(t, j) == MkSeq(LAMBDA i : <<t[1][j + 1]>>, Len(t))

\* t[:, j].reshape(-1, 1) (0-based j)
Column(t, j) == MkSeq(LAMBDA i : <<t[i][j + 1]>>, Len(t))

\* f applied elementwise
Map(f(_), t) == MkSeq(LAMBDA i : MkSeq(LAMBDA j : f(t[i][j]), Len(t[i])), Len(t))

\* the broadcast of two widths (equal, or one of them 1)
BroadcastCols(a, b) == IF a = 1 THEN b ELSE a

\* elementwise op of two tensors with the same number of rows, broadcasting
\* a single column over the other tensor's columns
Zip(op(_, _), s, t) ==
    MkSeq(LAMBDA i :
              MkSeq(LAMBDA j : op(s[i][IF Len(s[i]) = 1 THEN 1 ELSE j],
                                  t[i][IF Len(t[i]) = 1 THEN 1 ELSE j]),
                    BroadcastCols(Len(s[i]), Len(t[i]))),
          Len(s))

TAdd(s, t) == Zip(RAdd, s, t)

TMul(s, t) == Zip(RMul, s, t)

\* c * t, t / c and 1 - t for a scalar c
TScale(c, t) == Map(LAMBDA v : RMul(c, v), t)

TDivScalar(t, c) == Map(LAMBDA v : RDiv(v, c), t)

OneMinus(t) == Map(LAMBDA v : RSub(One, v), t)

\* torch.cat([...], dim=1)
RECURSIVE Cat(_)
Cat(ts) ==
    IF Len(ts) = 1 THEN ts[1]
    ELSE LET rest == Cat(Tail(ts))
         IN  MkSeq(LAMBDA i : ts[1][i] \o rest[i], Len(ts[1]))

RMax(a, b) == IF RLess(a, b) THEN b ELSE a

\* Faulty variant: the three probabilities are combined, 1 - (1-a)(1-b)(1-c)
MaxStack_combined(a, b, c) ==
    OneMinus(TMul(TMul(OneMinus(a), OneMinus(b)), OneMinus(c)))

\* torch.max(torch.stack([a, b, c], dim=0), dim=0) values
MaxStack(a, b, c) == Zip(RMax, Zip(RMax, a, b), c)

\* ------------------------------------------------------------ FullFrontalCrash
FullFrontalCrash_p_hic(hic) ==
    Prob(NormalCdf(((Ln(hic) - Dec(745231, 100000)) * FP) \div Dec(73998, 100000)))

p_chest_driver(chest) == Logistic(10545600, 1568000, Pow(chest, Dec(4612, 10000)))

p_femur_driver(femur) == LogisticM(5795000, 519600, femur)

p_nij(nij) == LogisticM(3226900, 1968800, nij)

p_tension_and_compression_driver(n_input) == LogisticM(10974500, 2375000, n_input)

p_chest_passenger(chest) == Logistic(10545600, 1721000, Pow(chest, Dec(4612, 10000)))

p_femur_passenger(femur) == LogisticM(5795000, 762000, femur)

p_tension_and_compression_passenger(n_input) == LogisticM(10958000, 3770000, n_input)

\* Faulty variant: the neck factor is left out of the product
rel_risk_without_neck(rel_risk_value) ==
    OneMinus(TMul(TMul(OneMinus(Column(rel_risk_value, 0)),
                       OneMinus(Column(rel_risk_value, 1))),
                  OneMinus(Column(rel_risk_value, 2))))

\* rel_risk of _rel_risk_single, before the division:
\* 1 - (1 - v[:,0]) (1 - v[:,1]) (1 - v[:,2]) (1 - v[:,3])
rel_risk(rel_risk_value) ==
    OneMinus(TMul(TMul(TMul(OneMinus(Column(rel_risk_value, 0)),
                            OneMinus(Column(rel_risk_value, 1))),
                       OneMinus(Column(rel_risk_value, 2))),
                  OneMinus(Column(rel_risk_value, 3))))

rel_risk_single(base_risk, rel_risk_value) ==
    TDivScalar(rel_risk(rel_risk_value), base_risk)

\* risk_values of rel_risk_driver: the (N,4) tensor of head, chest, femur and
\* neck probabilities (its shape assertion cannot fail: four (N,1) columns
\* are catenated)
driver_risk_values(parameters_ff_driver) ==
    LET phic         == Map(FullFrontalCrash_p_hic, Column(parameters_ff_driver, 0))
        pchest       == Map(p_chest_driver, Column(parameters_ff_driver, 1))
        pfemur       == Map(p_femur_driver, Column(parameters_ff_driver, 2))
        pnij         == Map(p_nij, Column(parameters_ff_driver, 3))
        pcompression == Map(p_tension_and_compression_driver,
                            Column(parameters_ff_driver, 4))
        ptension     == Map(p_tension_and_compression_driver,
                            Column(parameters_ff_driver, 5))
        pneck        == MaxStack(pnij, pcompression, ptension)
    IN  Cat(<<phic, pchest, pfemur, pneck>>)

rel_risk_driver(base_risk, parameters_ff_driver) ==
    rel_risk_single(base_risk, driver_risk_values(parameters_ff_driver))

\* risk_values of rel_risk_passenger.  As written, the passenger's chest,
\* femur and tension/compression probabilities are computed by the driver's
\* functions
passenger_risk_values(parameters_ff_passenger) ==
    LET phic         == Map(FullFrontalCrash_p_hic, Column(parameters_ff_passenger, 0))
        pchest       == Map(p_chest_driver, Column(parameters_ff_passenger, 1))
        pfemur       == Map(p_femur_driver, Column(parameters_ff_passenger, 2))
        pnij         == Map(p_nij, Column(parameters_ff_passenger, 3))
        pcompression == Map(p_tension_and_compression_driver,
                            Column(parameters_ff_passenger, 4))
        ptension     == Map(p_tension_and_compression_driver,
                            Column(parameters_ff_passenger, 5))
        pneck        == MaxStack(pnij, pcompression, ptension)
    IN  Cat(<<phic, pchest, pfemur, pneck>>)

rel_risk_passenger(base_risk, parameters_ff_passenger) ==
    rel_risk_single(base_risk, passenger_risk_values(parameters_ff_passenger))

\* Faulty variant: the passenger risk is computed from the driver's columns
FullFrontalCrash_driver_columns_twice(base_risk, measurements_full_frontal) ==
    LET driver_risk    == rel_risk_driver(base_risk,
                              Slice(measurements_full_frontal, 0, 6))
        passenger_risk == rel_risk_passenger(base_risk,
                              Slice(measurements_full_frontal, 0, 6))
    IN  TDivScalar(TAdd(driver_risk, passenger_risk), Frac(2, 1))

FullFrontalCrash(base_risk, measurements_full_frontal) ==
    LET driver_risk    == rel_risk_driver(base_risk,
                              Slice(measurements_full_frontal, 0, 6))
        passenger_risk == rel_risk_passenger(base_risk,
                              Slice(measurements_full_frontal, 6,
                                    Cols(measurements_full_frontal)))
    IN  TDivScalar(TAdd(driver_risk, passenger_risk), Frac(2, 1))

\* ------------------------------------------------------------ SideImpact
SideImpact_p_hic(hic) ==
    Prob(NormalCdf(((Ln(hic) - Dec(745231, 100000)) * FP) \div Dec(73998, 100000)))

p_chest_front(chest) == LogisticM(5389500, 92000, chest)

p_abdomen_front(abdomen) == LogisticM(6040000, 2100, abdomen)

p_pelvis_front(pelvis) == LogisticM(7597000, 1000, pelvis)

p_pelvis_rear(pelvis) == LogisticM(6305500, 940, pelvis)

\* risk_values of rel_risk_front: the (N,4) tensor of head, chest, abdomen
\* and pelvis probabilities
front_risk_values(parameters_side_front) ==
    LET phic     == Map(SideImpact_p_hic, Column(parameters_side_front, 0))
        pchest   == Map(p_chest_front, Column(parameters_side_front, 1))
        pabdomen == Map(p_abdomen_front, Column(parameters_side_front, 2))
        ppelvis  == Map(p_pelvis_front, Column(parameters_side_front, 3))
    IN  Cat(<<phic, pchest, pabdomen, ppelvis>>)

\* risk_value of rel_risk_front, before the division
front_risk_value(parameters_side_front) ==
    LET v == front_risk_values(parameters_side_front)
    IN  OneMinus(TMul(TMul(TMul(OneMinus(Column(v, 0)), OneMinus(Column(v, 1))),
                           OneMinus(Column(v, 2))),
                      OneMinus(Column(v, 3))))

rel_risk_front(base_risk, parameters_side_front) ==
    TDivScalar(front_risk_value(parameters_side_front), base_risk)

\* risk_values of rel_risk_rear: the (N,2) tensor of head and pelvis
\* probabilities
rear_risk_values(parameters_side_rear) ==
    LET phic    == Map(SideImpact_p_hic, Column(parameters_side_rear, 0))
        ppelvis == Map(p_pelvis_rear, Column(parameters_side_rear, 1))
    IN  Cat(<<phic, ppelvis>>)

\* risk_value of rel_risk_rear, before the division
rear_risk_value(parameters_side_rear) ==
    LET v == rear_risk_values(parameters_side_rear)
    IN  OneMinus(TMul(OneMinus(Column(v, 0)), OneMinus(Column(v, 1))))

rel_risk_rear(base_risk, parameters_side_rear) ==
    TDivScalar(rear_risk_value(parameters_side_rear), base_risk)

rel_risk_front_pole(base_risk, parameters_side_front_pole) ==
    rel_risk_rear(base_risk, parameters_side_front_pole)

\* Faulty variant: the rear risk is computed from the pole test's columns
SideImpact_rear_from_pole_columns(base_risk, measurements_side_crash) ==
    LET risk_front_pole == rel_risk_front_pole(base_risk,
                               Slice(measurements_side_crash, 0, 2))
        risk_front_mdb  == rel_risk_front(base_risk,
                               Slice(measurements_side_crash, 2, 6))
        risk_rear_mdb   == rel_risk_rear(base_risk,
                               Slice(measurements_side_crash, 0, 2))
        risk_front      == TAdd(TScale(Frac(2, 10), risk_front_pole),
                                TScale(Frac(8, 10), risk_front_mdb))
    IN  TDivScalar(TAdd(risk_front, risk_rear_mdb), Frac(2, 1))

SideImpact(base_risk, measurements_side_crash) ==
    LET risk_front_pole == rel_risk_front_pole(base_risk,
                               Slice(measurements_side_crash, 0, 2))
        risk_front_mdb  == rel_risk_front(base_risk,
                               Slice(measurements_side_crash, 2, 6))
        risk_rear_mdb   == rel_risk_rear(base_risk,
                               Slice(measurements_side_crash, 6,
                                     Cols(measurements_side_crash)))
        risk_front      == TAdd(TScale(Frac(2, 10), risk_front_pole),
                                TScale(Frac(8, 10), risk_front_mdb))
    IN  TDivScalar(TAdd(risk_front, risk_rear_mdb), Frac(2, 1))

\* ------------------------------------------------------------ RollOver
\* Faulty variant: the rollover probability is not divided by base risk
RollOver_undivided(base_risk, p_roll) == p_roll

RollOver(base_risk, p_roll) == TDivScalar(p_roll, base_risk)

\* ------------------------------------------------------------ US_NCAP task
\* the default prior bounds, in hundredths
LOWER_BOUND_FULL_FRONTAL ==
    <<20000, 500, 200, 0, 150, 150, 20000, 500, 200, 0, 150, 150>>

UPPER_BOUND_FULL_FRONTAL ==
    <<100000, 4500, 800, 120, 400, 400, 100000, 4500, 600, 120, 250, 250>>

LOWER_BOUND_SIDE_IMPACT ==
    <<20000, 100000, 20000, 500, 100000, 100000, 20000, 100000>>

UPPER_BOUND_SIDE_IMPACT ==
    <<100000, 550000, 100000, 4500, 550000, 550000, 100000, 550000>>

LOWER_BOUND_ROLL_OVER == <<1>>

UPPER_BOUND_ROLL_OVER == <<25>>

prior_lower_bound ==
    LOWER_BOUND_FULL_FRONTAL \o LOWER_BOUND_SIDE_IMPACT \o LOWER_BOUND_ROLL_OVER

prior_upper_bound ==
    UPPER_BOUND_FULL_FRONTAL \o UPPER_BOUND_SIDE_IMPACT \o UPPER_BOUND_ROLL_OVER

\* the constructor's defaults
DefaultDimData == 1

DefaultDimParameters == 21

DefaultBaseRisk == Frac(15, 100)

DefaultNoiseLevel == Frac(1, 10)

get_labels_data == <<"Relative Risk">>

get_labels_parameters ==
    <<"Full Frontal Driver HIC",
      "Full Frontal Driver Chest Deflection",
      "Full Frontal Driver Femur Load",
      "Full Frontal Driver NIJ",
      "Full Frontal Driver Neck Compression",
      "Full Frontal Driver Neck Tension",
      "Full Frontal Passanger HIC",
      "Full Frontal Passanger Chest Deflection",
      "Full Frontal Passanger Femur Load",
      "Full Frontal Passanger NIJ",
      "Full Frontal Passanger Neck Compression",
      "Full Frontal Passanger Neck Tension",
      "Side Pole Front HIC",
      "Side Pole Front Chest (Rib)",
      "Side Pole Front Abdomen",
      "Side Pole Front Pelvis",
      "Side Impact Front HIC",
      "Side Impact Front Chest (Rib)",
      "Side Impact Front Abdomen",
      "Side Impact Front Pelvis",
      "Side Impact Rear HIC",
      "Side Impact Rear Pelvis",
      "Roll Over Probability">>

\* constructor arguments: any dimensionality, base risk and noise level is
\* accepted and stored unchecked.  The dimensionalities run from the default
\* to the number of parameter labels (the 23 of the simulator's docstring)
Dims == DefaultDimParameters..Len(get_labels_parameters)

BaseRisks == {DefaultBaseRisk, RMul(Frac(2, 1), DefaultBaseRisk), Zero}

NoiseLevels == {Zero, DefaultNoiseLevel}

US_NCAP(dim_parameters, base_risk, noise_level) ==
    [dim_data       |-> DefaultDimData,
     dim_parameters |-> dim_parameters,
     base_risk      |-> base_risk,
     noise_level    |-> noise_level]

\* torch.randn_like(t): one standard-normal draw per element; the draws of
\* seed s are taken from {-1, 0, 1}
randn_like(t, seed) ==
    MkSeq(LAMBDA i : MkSeq(LAMBDA j : Frac(((seed + i + 2 * j) % 3) - 1, 1), Len(t[i])),
          Len(t))

\* the scenario risks of a parameter batch that passed the dimension check
risk_full_frontal(task, parameters) ==
    FullFrontalCrash(task.base_risk, Slice(parameters, 0, 12))

risk_side_impact(task, parameters) ==
    SideImpact(task.base_risk, Slice(parameters, 12, 20))

risk_roll_over(task, parameters) ==
    RollOver(task.base_risk, Map(Real, Slice(parameters, 20, Cols(parameters))))

\* Faulty variant: the full-frontal and side-impact weights are exchanged
weighted_risk_weights_exchanged(ff, si, ro) ==
    TAdd(TAdd(TScale(Frac(4, 12), ff), TScale(Frac(5, 12), si)),
         TScale(Frac(3, 12), ro))

\* 5/12 full frontal + 4/12 side impact + 3/12 roll over
weighted_risk(ff, si, ro) ==
    TAdd(TAdd(TScale(Frac(5, 12), ff), TScale(Frac(4, 12), si)),
         TScale(Frac(3, 12), ro))

\* Faulty variant: the noise is added without scaling it by the noise level
add_noise_unscaled(task, risk_values, seed) ==
    TAdd(risk_values, randn_like(risk_values, seed))

\* risk_values += torch.randn_like(risk_values) * noise_level
add_noise(task, risk_values, seed) ==
    TAdd(risk_values, TScale(task.noise_level, randn_like(risk_values, seed)))

\* the simulator's body after the dimension check
simulate(task, parameters, seed) ==
    LET ff == risk_full_frontal(task, parameters)
        si == risk_side_impact(task, parameters)
        ro == risk_roll_over(task, parameters)
    IN  [status |-> "ok", ff |-> ff, si |-> si, ro |-> ro,
         out |-> add_noise(task, weighted_risk(ff, si, ro), seed)]

\* Faulty variant: the dimension check is left out
simulator_unchecked(task, parameters, seed) == simulate(task, parameters, seed)

\* simulator(parameters): the result of one call and the scenario risks it
\* computed on the way
simulator(task, parameters, seed) ==
    IF Cols(parameters) # task.dim_parameters
    THEN [status |-> "AssertionError", ff |-> <<>>, si |-> <<>>, ro |-> <<>>,
          out |-> <<>>]
    ELSE simulate(task, parameters, seed)

\* the quantity the simulator reads from parameter column i (1-based), by the
\* slices of simulator, FullFrontalCrash.__call__ and SideImpact.__call__
\* and the function each column is passed to
ColumnQuantity(i) ==
    IF i <= 12
    THEN (IF i <= 6 THEN "Full Frontal Driver " ELSE "Full Frontal Passanger ")
         \o <<"HIC", "Chest Deflection", "Femur Load", "NIJ",
              "Neck Compression", "Neck Tension">>[((i - 1) % 6) + 1]
    ELSE IF i <= 14 THEN "Side Pole Front " \o <<"HIC", "Pelvis">>[i - 12]
    ELSE IF i <= 18
    THEN "Side Impact Front "
         \o <<"HIC", "Chest (Rib)", "Abdomen", "Pelvis">>[i - 14]
    ELSE IF i <= 20 THEN "Side Impact Rear " \o <<"HIC", "Pelvis">>[i - 18]
    ELSE "Roll Over Probability"

\* ------------------------------------------------------------ inputs
Lower(i) == IF i <= Len(prior_lower_bound) THEN prior_lower_bound[i]
            ELSE LOWER_BOUND_ROLL_OVER[1]

Upper(i) == IF i <= Len(prior_upper_bound) THEN prior_upper_bound[i]
            ELSE UPPER_BOUND_ROLL_OVER[1]

\* pattern p puts column i at the lower bound (0), the middle (1) or the
\* upper bound (2) of its prior range: pattern 0 every column at the lower
\* bound, pattern 1 every column at the upper bound, the others a level that
\* moves on with the column and shifts with every group of six columns, so
\* that the columns of the driver and the passenger, and of the pole, the
\* barrier and the rear occupant, hold different values
Level(p, i) ==
    IF p = 0 THEN 0
    ELSE IF p = 1 THEN 2
    ELSE (i + p + ((i - 1) \div 6)) % 3

ParamRow(p, d) ==
    MkSeq(LAMBDA i : Lower(i) + Level(p, i) * ((Upper(i) - Lower(i)) \div 2), d)

Patterns == 0..(NumPatterns - 1)

Seeds == 0..(NumSeeds - 1)

\* the batch of n rows that starts at pattern p and moves on one pattern per
\* row
Batch(n, p, d) == MkSeq(LAMBDA i : ParamRow((p + i - 1) % NumPatterns, d), n)

\* ------------------------------------------------------------ state
\* task: the constructed task's configuration
\* last: the last operation called on it, its arguments and its result
VARIABLES task, last

vars == <<task, last>>

Result(op, parameters, r, repeated, prev) ==
    [op |-> op, parameters |-> parameters, status |-> r.status, out |-> r.out,
     ff |-> r.ff, si |-> r.si, ro |-> r.ro, repeated |-> repeated, prev |-> prev]

NoRisks(status, out) ==
    [status |-> status, out |-> out, ff |-> <<>>, si |-> <<>>, ro |-> <<>>]

Init ==
    /\ task \in {US_NCAP(d, b, n) : d \in Dims, b \in BaseRisks, n \in NoiseLevels}
    /\ last = Result("none", <<>>, NoRisks("none", <<>>), FALSE, <<>>)

\* a call of the task's simulator on a fresh parameter batch.  Its result
\* does not depend on what was called before, so it is explored from the
\* freshly constructed task only.
Simulate ==
    /\ last.op # "simulator"
    /\ \E n \in 1..MaxBatch, p \in Patterns, d \in Dims, seed \in Seeds :
        LET parameters == Batch(n, p, d)
        IN  last' = Result("simulator", parameters,
                           simulator(task, parameters, seed), FALSE, <<>>)
    /\ UNCHANGED task

\* a further call with the parameters of the successful call before; the
\* output of that call is kept in prev
Repeat ==
    /\ last.op = "simulator"
    /\ last.status = "ok"
    /\ \E seed \in Seeds :
        last' = Result("simulator", last.parameters,
                       simulator(task, last.parameters, seed), TRUE, last.out)
    /\ UNCHANGED task

GetLabelsParameters ==
    /\ last.op = "none"
    /\ last' = Result("get_labels_parameters", <<>>,
                      NoRisks("ok", get_labels_parameters), FALSE, <<>>)
    /\ UNCHANGED task

GetLabelsData ==
    /\ last.op = "none"
    /\ last' = Result("get_labels_data", <<>>,
                      NoRisks("ok", get_labels_data), FALSE, <<>>)
    /\ UNCHANGED task

Next == Simulate \/ Repeat \/ GetLabelsParameters \/ GetLabelsData

Spec == Init /\ [][Next]_vars

\* ------------------------------------------------------------ direct calls
\* The occupant risk functions called on their own, with measurements and
\* probabilities beyond the prior's range (no function restricts its
\* argument to that range).

\* rel_risk_value of _rel_risk_single: probabilities 0, 1/2 and 1, the
\* neck column also the smallest positive one
RiskValueLevels ==
    <<<<Zero, Frac(1, 2), One>>, <<Zero, Frac(1, 2), One>>,
      <<Zero, Frac(1, 2), One>>, <<Zero, Frac(1, ProbScale), One>>>>

\* the number of values explored for every column
NumLevels == Len(RiskValueLevels[1])

\* row k of the tensors whose column j takes the values levels[j]: the
\* digits of k to the base NumLevels choose each column's value
LevelRow(levels, k) ==
    MkSeq(LAMBDA j : levels[j][((k \div (NumLevels ^ (j - 1))) % NumLevels) + 1],
          Len(levels))

\* the batch of n rows that starts at row k and moves on five rows per row
LevelBatch(levels, n, k) ==
    MkSeq(LAMBDA i : LevelRow(levels, (k + 5 * (i - 1)) % (NumLevels ^ Len(levels))),
          n)

LevelIds(levels) == 0..(NumLevels ^ Len(levels) - 1)

\* full-frontal occupant measurements (hundredths): NIJ 0 .. 1.2, neck
\* compression and tension 1.5 .. 6 kN, after a fixed HIC, chest deflection
\* and femur load
NeckLevels == <<<<0, 60, 120>>, <<150, 450, 600>>, <<150, 450, 600>>>>

OccupantBatch(n, k) ==
    MkSeq(LAMBDA i : <<60000, 2500, 400>> \o LevelBatch(NeckLevels, n, k)[i], n)

\* side-impact front measurements: HIC 200 .. 20000, rib 0 .. 120 mm,
\* abdomen 0 .. 6000 N, pelvis 0 .. 14000 N
SideFrontLevels ==
    <<<<20000, 170000, 2000000>>, <<0, 5800, 12000>>,
      <<0, 287600, 600000>>, <<0, 760000, 1400000>>>>

\* side-impact rear (and pole) measurements: HIC and pelvis force
SideRearLevels ==
    <<<<20000, 170000, 2000000>>, <<0, 670000, 1400000>>>>

\* a direct call's argument, the probabilities it combines (risk_values),
\* their combination before the division (risk_value) and its result
DirectResult(op, parameters, risk_values, risk_value, out) ==
    [op |-> op, parameters |-> parameters, status |-> "ok",
     risk_values |-> risk_values, risk_value |-> risk_value, out |-> out]

DirectInit ==
    /\ task \in {US_NCAP(DefaultDimParameters, b, DefaultNoiseLevel) : b \in BaseRisks}
    /\ last = Result("none", <<>>, NoRisks("none", <<>>), FALSE, <<>>)

RelRiskSingle ==
    /\ last.op = "none"
    /\ \E n \in 1..MaxBatch, k \in LevelIds(RiskValueLevels) :
        LET v == LevelBatch(RiskValueLevels, n, k)
        IN  last' = DirectResult("_rel_risk_single", v, v, rel_risk(v),
                                 rel_risk_single(task.base_risk, v))
    /\ UNCHANGED task

RelRiskDriver ==
    /\ last.op = "none"
    /\ \E n \in 1..MaxBatch, k \in LevelIds(NeckLevels) :
        LET m == OccupantBatch(n, k)
        IN  last' = DirectResult("rel_risk_driver", m, driver_risk_values(m),
                                 rel_risk(driver_risk_values(m)),
                                 rel_risk_driver(task.base_risk, m))
    /\ UNCHANGED task

RelRiskPassenger ==
    /\ last.op = "none"
    /\ \E n \in 1..MaxBatch, k \in LevelIds(NeckLevels) :
        LET m == OccupantBatch(n, k)
        IN  last' = DirectResult("rel_risk_passenger", m, passenger_risk_values(m),
                                 rel_risk(passenger_risk_values(m)),
                                 rel_risk_passenger(task.base_risk, m))
    /\ UNCHANGED task

RelRiskFront ==
    /\ last.op = "none"
    /\ \E n \in 1..MaxBatch, k \in LevelIds(SideFrontLevels) :
        LET m == LevelBatch(SideFrontLevels, n, k)
        IN  last' = DirectResult("rel_risk_front", m, front_risk_values(m),
                                 front_risk_value(m),
                                 rel_risk_front(task.base_risk, m))
    /\ UNCHANGED task

RelRiskRear ==
    /\ last.op = "none"
    /\ \E n \in 1..MaxBatch, k \in LevelIds(SideRearLevels) :
        LET m == LevelBatch(SideRearLevels, n, k)
        IN  last' = DirectResult("rel_risk_rear", m, rear_risk_values(m),
                                 rear_risk_value(m),
                                 rel_risk_rear(task.base_risk, m))
    /\ UNCHANGED task

DirectNext ==
    RelRiskSingle \/ RelRiskDriver \/ RelRiskPassenger \/ RelRiskFront \/ RelRiskRear

DirectSpec == DirectInit /\ [][DirectNext]_vars

\* ------------------------------------------------------------ properties
OkCall == last.op = "simulator" /\ last.status = "ok"

NoiseFree == task.noise_level = Zero

\* a tensor whose every element is a finite number
AllFinite(t) == \A i \in 1..Len(t) : \A j \in 1..Len(t[i]) : IsFinite(t[i][j])

\* 1 - (1 - a)(1 - b)(1 - c)(1 - d) and 1 - (1 - a)(1 - b) of scalars
Comb4(a, b, c, d) ==
    RSub(One, RMul(RMul(RMul(RSub(One, a), RSub(One, b)), RSub(One, c)),
                   RSub(One, d)))

Comb2(a, b) == RSub(One, RMul(RSub(One, a), RSub(One, b)))

Max3(a, b, c) == RMax(RMax(a, b), c)

Half(a) == RDiv(a, Frac(2, 1))

\* the rows of t in the order f (a permutation of 1..Len(t))
Permute(t, f) == MkSeq(LAMBDA i : t[f[i]], Len(t))

\* the passenger relative risk of a (0-based) full-frontal passenger row
\* r = <<hic, chest, femur, nij, compression, tension>> by the passenger
\* curves
PassengerCurveRisk(base_risk, r) ==
    RDiv(Comb4(FullFrontalCrash_p_hic(r[1]),
               p_chest_passenger(r[2]),
               p_femur_passenger(r[3]),
               Max3(p_nij(r[4]),
                    p_tension_and_compression_passenger(r[5]),
                    p_tension_and_compression_passenger(r[6]))),
         base_risk)

DriverCurveRisk(base_risk, r) ==
    RDiv(Comb4(FullFrontalCrash_p_hic(r[1]),
               p_chest_driver(r[2]),
               p_femur_driver(r[3]),
               Max3(p_nij(r[4]),
                    p_tension_and_compression_driver(r[5]),
                    p_tension_and_compression_driver(r[6]))),
         base_risk)

\* C1: in every simulator call, for every row, rel_risk_driver of columns
\* 0-5 is the risk by the driver curves and rel_risk_passenger of columns
\* 6-11 is the risk by the passenger curves (chest b = 1.721, femur
\* b = 0.762, tension/compression a = 10.958, b = 3.770).
C1_PassengerCurvesApplied ==
    OkCall =>
        \A i \in 1..Len(last.parameters) :
            LET row == last.parameters[i]
            IN  /\ rel_risk_driver(task.base_risk, <<SubSeq(row, 1, 6)>>)
                       = <<<<DriverCurveRisk(task.base_risk, SubSeq(row, 1, 6))>>>>
                /\ rel_risk_passenger(task.base_risk, <<SubSeq(row, 7, 12)>>)
                       = <<<<PassengerCurveRisk(task.base_risk, SubSeq(row, 7, 12))>>>>

\* C2: every successful simulator call on a batch of shape (N, D) returns a
\* batch of shape (N, 1).
C2_OutputShapeN1 ==
    OkCall => Shape(last.out) = <<Rows(last.parameters), 1>>

\* C3: a simulator call whose parameter batch has a second dimension other
\* than dim_parameters fails with the assertion error, returns nothing and
\* has computed no scenario risk; a call succeeds only when the second
\* dimension equals dim_parameters.
C3_WrongDimFails ==
    last.op = "simulator" =>
        /\ Cols(last.parameters) # task.dim_parameters =>
               /\ last.status = "AssertionError"
               /\ last.out = <<>>
               /\ last.ff = <<>> /\ last.si = <<>> /\ last.ro = <<>>
        /\ last.status = "ok" => Cols(last.parameters) = task.dim_parameters

C3_Witness ==
    /\ last.op = "simulator"
    /\ last.status = "AssertionError"
    /\ Cols(last.parameters) = task.dim_parameters + 1

\* C4: get_labels_parameters returns dim_parameters labels, the i-th naming
\* the quantity the simulator reads from column i, and get_labels_data
\* returns dim_data labels.
C4_OneLabelPerDimension ==
    /\ last.op = "get_labels_parameters" =>
           /\ Len(last.out) = task.dim_parameters
           /\ \A i \in 1..Len(last.out) : last.out[i] = ColumnQuantity(i)
    /\ last.op = "get_labels_data" => Len(last.out) = task.dim_data

\* C5: with noise level 0 every output element of a successful call is
\* 5/12 full-frontal risk + 4/12 side-impact risk + 3/12 rollover risk of its
\* row, the rollover risk being the rollover probability over base risk;
\* the weights sum to 1.
C5_WeightedSum ==
    /\ RAdd(RAdd(Frac(5, 12), Frac(4, 12)), Frac(3, 12)) = One
    /\ (OkCall /\ NoiseFree) =>
           /\ Len(last.out) = Len(last.parameters)
           /\ \A i \in 1..Len(last.out) :
                  \A j \in 1..Len(last.out[i]) :
                      last.out[i][j]
                          = RAdd(RAdd(RMul(Frac(5, 12), last.ff[i][1]),
                                      RMul(Frac(4, 12), last.si[i][1])),
                                 RMul(Frac(3, 12),
                                      RDiv(Real(last.parameters[i][20 + j]),
                                           task.base_risk)))

C5_Witness ==
    /\ OkCall /\ NoiseFree
    /\ Len(last.out) = 2
    /\ AllFinite(last.out)
    /\ last.out[1] # last.out[2]
    /\ last.ff # last.si

\* C6: with noise level 0 a repeated call with the same parameter batch
\* returns the output of the call before.
C6_Deterministic ==
    (OkCall /\ last.repeated /\ NoiseFree) => last.out = last.prev

C6_Witness ==
    /\ OkCall /\ last.repeated /\ NoiseFree
    /\ AllFinite(last.out)
    /\ Len(last.out) = 2

\* C7: with noise level 0 a batch of N rows yields N output rows, each the
\* output of its row simulated alone, and every permutation of the batch
\* yields the output permuted the same way.
C7_RowIndependent ==
    (OkCall /\ NoiseFree) =>
        /\ Len(last.out) = Len(last.parameters)
        /\ \A i \in 1..Len(last.parameters) :
               simulator(task, <<last.parameters[i]>>, 0).out = <<last.out[i]>>
        /\ \A f \in Permutations(1..Len(last.parameters)) :
               simulator(task, Permute(last.parameters, f), 0).out
                   = Permute(last.out, f)

C7_Witness ==
    /\ OkCall /\ NoiseFree
    /\ Len(last.parameters) = 2
    /\ AllFinite(last.out)
    /\ last.out[1] # last.out[2]

\* C8: with noise level 0, the same parameters simulated under twice the
\* base risk give half the output.
C8_InverseInBaseRisk ==
    (OkCall /\ NoiseFree) =>
        simulator(US_NCAP(task.dim_parameters,
                          RMul(Frac(2, 1), task.base_risk), Zero),
                  last.parameters, 0).out
            = TScale(Frac(1, 2), last.out)

C8_Witness ==
    /\ OkCall /\ NoiseFree
    /\ task.base_risk # Zero
    /\ AllFinite(last.out)
    /\ \A i \in 1..Len(last.out) : \A j \in 1..Len(last.out[i]) :
           last.out[i][j] # Zero

\* the 2-input (head, pelvis) risk by the rear-occupant formula and the
\* 4-input (head, rib, abdomen, pelvis) front risk of scalars
Rear2(base_risk, hic, pelvis) ==
    RDiv(Comb2(SideImpact_p_hic(hic), p_pelvis_rear(pelvis)), base_risk)

Front4(base_risk, hic, rib, abdomen, pelvis) ==
    RDiv(Comb4(SideImpact_p_hic(hic), p_chest_front(rib),
               p_abdomen_front(abdomen), p_pelvis_front(pelvis)),
         base_risk)

C10_FullFrontal ==
    OkCall =>
        /\ Shape(last.ff) = <<Len(last.parameters), 1>>
        /\ \A i \in 1..Len(last.parameters) :
               LET d == driver_risk_values(<<SubSeq(last.parameters[i], 1, 6)>>)[1]
                   p == passenger_risk_values(<<SubSeq(last.parameters[i], 7, 12)>>)[1]
                   driver    == RDiv(Comb4(d[1], d[2], d[3], d[4]), task.base_risk)
                   passenger == RDiv(Comb4(p[1], p[2], p[3], p[4]), task.base_risk)
               IN  last.ff[i][1] = Half(RAdd(driver, passenger))

C10_Witness ==
    /\ OkCall
    /\ AllFinite(last.ff)
    /\ LET r == last.parameters[1]
       IN  /\ \A k \in 1..6 : r[k] # r[k + 6]
           /\ rel_risk_driver(task.base_risk, <<SubSeq(r, 1, 6)>>)
                  # rel_risk_passenger(task.base_risk, <<SubSeq(r, 7, 12)>>)
\* a direct call of a full-frontal occupant's risk function
OccupantCall == last.op \in {"rel_risk_driver", "rel_risk_passenger"}

\* 1 - (1 - a)(1 - b)(1 - c) of scalars
Comb3(a, b, c) == RSub(One, RMul(RMul(RSub(One, a), RSub(One, b)), RSub(One, c)))

\* the NIJ, compression and tension probabilities of the measurement row r
\* (the tension/compression curve is the one both occupants' functions call)
NeckProbabilities(r) ==
    <<p_nij(r[4]), p_tension_and_compression_driver(r[5]),
      p_tension_and_compression_driver(r[6])>>

\* C11: for each full-frontal occupant and each row, the neck probability
\* that enters the combination is the maximum of the row's own NIJ,
\* compression and tension probabilities: it equals one of the three, is
\* not smaller than any of them, is not their combined probability
\* 1 - (1 - p_nij)(1 - p_compression)(1 - p_tension) where that differs from
\* the maximum, and is the fourth probability of the combination.
C11_NeckIsMaximum ==
    OccupantCall =>
        \A i \in 1..Len(last.parameters) :
            LET n     == NeckProbabilities(last.parameters[i])
                v     == last.risk_values[i]
                pneck == v[4]
            IN  /\ pneck = Max3(n[1], n[2], n[3])
                /\ pneck \in {n[1], n[2], n[3]}
                /\ \A k \in 1..3 : ~RLess(pneck, n[k])
                /\ Comb3(n[1], n[2], n[3]) # Max3(n[1], n[2], n[3])
                       => pneck # Comb3(n[1], n[2], n[3])
                /\ last.risk_value[i] = <<Comb4(v[1], v[2], v[3], pneck)>>

\* a two-row occupant call whose first row has three different positive neck
\* probabilities (so that the maximum is not the combined probability) and
\* whose rows have different neck probabilities
C11_Witness ==
    /\ OccupantCall
    /\ Len(last.parameters) = 2
    /\ LET n == NeckProbabilities(last.parameters[1])
       IN  /\ Cardinality({n[1], n[2], n[3]}) = 3
           /\ \A k \in 1..3 : RLess(Zero, n[k])
           /\ Comb3(n[1], n[2], n[3]) # Max3(n[1], n[2], n[3])
    /\ last.risk_values[1][4] # last.risk_values[2][4]
\* a direct call of a function that combines occupant probabilities
CombinationCall ==
    last.op \in {"_rel_risk_single", "rel_risk_driver", "rel_risk_passenger",
                 "rel_risk_front", "rel_risk_rear"}

\* p lies in [0, 1]
InUnitInterval(p) == ~RLess(p, Zero) /\ ~RLess(One, p)

C13_BaseRiskPositive == OkCall => RLess(Zero, task.base_risk)
====
